---- MODULE Spec2Model ----
(***************************************************************************)
(* FinXchange: the offline transaction queue and reconciliation flow.      *)
(*                                                                         *)
(*   - the service worker's request handlers (handleAPIGet,                *)
(*     handleAPIRequest) with the API cache and the worker's offlineQueue  *)
(*     store                                  -> specification SpecSW      *)
(*   - the page's OfflineStorage              -> specification SpecStore   *)
(*   - the useOfflineQueue hook over that store                            *)
(*                                            -> specification SpecQueue   *)
(*   - the server's transfer and webhook handlers                          *)
(*                                            -> specification SpecServer  *)
(***************************************************************************)
EXTENDS Integers, Sequences, FiniteSets, TLC

VARIABLES
    \* ---- service worker ----
    now,            \* Date.now(), in milliseconds
    apiCache,       \* Cache API, cache 'finxchange-api-v1': pathname -> entry
    offlineQueue,   \* IndexedDB store 'offlineQueue' of the worker
    swResp,         \* the Response the last handler returned (and what it did)
    swSeq,          \* number of requests the worker has handled
    \* ---- IndexedDB database 'FinXchangeOfflineDB', shared by page and worker ----
    dbStores,       \* names of its object stores; {} while it was never opened
    \* ---- the page's OfflineStorage singleton ----
    isInitialized,  \* OfflineStorage.isInitialized
    txStore,        \* object store 'offlineTransactions' (keyPath 'id')
    stResult,       \* how the last OfflineStorage call settled
    \* ---- the useOfflineQueue hook ----
    user,                \* useAuth().user (its id, or NoUser for null)
    isOnline,            \* useState(navigator.onLine)
    isProcessing,        \* useState(false)
    queuedTransactions,  \* useState<OfflineTransaction[]>([])
    view,           \* the state values captured by the closures of the last render
    mountView,      \* the state values captured by the closures of the first render
    stale,          \* number of handler runs since the last render
    passes,         \* the running calls of processQueuedTransactions, each with its closure
    loads,          \* number of loadQueuedTransactions calls awaiting the store
    inflight,       \* the fetches the passes have issued and that have not settled
    \* ---- the server ----
    wallets,        \* table wallets: userId -> balance
    transactions,   \* table transactions, in order of creation
    reqs,           \* the route handlers called so far, each with its locals
    webhook         \* the webhook callbacks processed: how many, and the last one

swVars == <<now, apiCache, offlineQueue, swResp, swSeq>>
storeVars == <<isInitialized, txStore, stResult>>
hookVars == <<user, isOnline, isProcessing, queuedTransactions, view, mountView, stale,
              passes, loads, inflight>>

srvVars == <<wallets, transactions, reqs, webhook>>

nonSwVars == <<storeVars, hookVars, srvVars>>

vars == <<swVars, dbStores, storeVars, hookVars, srvVars>>

(***************************************************************************)
(* Bounds                                                                  *)
(***************************************************************************)
MaxTicks == 6
MaxSwRequests == 2
MaxBody == 2
MaxRecords == 2
MaxPasses == 2
MaxStale == 2
MaxSrvRequests == 2
MaxWebhooks == 2
MaxBalance == 3

(***************************************************************************)
(* Strings are sequences of characters, so that String.startsWith is       *)
(* computed as the code computes it.                                       *)
(***************************************************************************)
StartsWith(s, p) == Len(p) <= Len(s) /\ SubSeq(s, 1, Len(p)) = p

API == <<"/", "a", "p", "i", "/">>

P_AUTH_ME      == API \o <<"a","u","t","h","/","m","e">>
P_WALLET       == API \o <<"w","a","l","l","e","t">>
P_VIRTUAL      == API \o <<"v","i","r","t","u","a","l","-","a","c","c","o","u","n","t">>
P_BANKS        == API \o <<"b","a","n","k","s">>
P_BENEFICIARIES == API \o <<"b","e","n","e","f","i","c","i","a","r","i","e","s">>
P_TRANSACTIONS == API \o <<"t","r","a","n","s","a","c","t","i","o","n","s">>

P_LOGIN        == API \o <<"a","u","t","h","/","l","o","g","i","n">>
P_LOGOUT       == API \o <<"a","u","t","h","/","l","o","g","o","u","t">>
P_REGISTER     == API \o <<"a","u","t","h","/","r","e","g","i","s","t","e","r">>
P_VERIFY_OTP   == API \o <<"a","u","t","h","/","v","e","r","i","f","y","-","o","t","p">>
P_TRANSFER     == API \o <<"t","r","a","n","s","f","e","r","/">>
P_WEBHOOKS     == API \o <<"w","e","b","h","o","o","k","s","/">>

P_TRANSFER_BANK   == P_TRANSFER \o <<"b","a","n","k">>
P_TRANSFER_WALLET == P_TRANSFER \o <<"w","a","l","l","e","t">>
P_WEBHOOK_SQUAD   == P_WEBHOOKS \o <<"s","q","u","a","d">>
P_BILLS_PURCHASE  == API \o <<"b","i","l","l","s","/","p","u","r","c","h","a","s","e">>
P_OFFLINE_TX      == API \o <<"o","f","f","l","i","n","e","-","t","r","a","n","s","a","c","t","i","o","n","s">>

CACHEABLE_API_ENDPOINTS ==
    {P_AUTH_ME, P_WALLET, P_VIRTUAL, P_BANKS, P_BENEFICIARIES, P_TRANSACTIONS}

NON_CACHEABLE_ENDPOINTS ==
    {P_LOGIN, P_LOGOUT, P_REGISTER, P_VERIFY_OTP, P_TRANSFER, P_WEBHOOKS}

\* the requests the page issues in this model
GetPaths   == {P_WALLET, P_TRANSACTIONS, P_OFFLINE_TX}
WritePaths == {P_TRANSFER_BANK, P_TRANSFER_WALLET, P_LOGIN, P_WEBHOOK_SQUAD,
               P_BILLS_PURCHASE, P_BENEFICIARIES}
WriteMethods == {"POST", "DELETE"}
Bodies == 1..MaxBody

(***************************************************************************)
(* Date.now().toString() and parseInt(), on decimal digit characters.      *)
(***************************************************************************)
DigitChars == <<"0", "1", "2", "3", "4", "5", "6", "7", "8", "9">>

DigitVal(c) == (CHOOSE i \in 1..10 : DigitChars[i] = c) - 1

RECURSIVE ToStr(_)
ToStr(n) ==
    IF n < 10 THEN <<DigitChars[n + 1]>>
    ELSE ToStr(n \div 10) \o <<DigitChars[(n % 10) + 1]>>

RECURSIVE ParseInt(_)
ParseInt(s) ==
    IF Len(s) = 1 THEN DigitVal(s[1])
    ELSE 10 * ParseInt(SubSeq(s, 1, Len(s) - 1)) + DigitVal(s[Len(s)])

TickMs  == 60 * 1000          \* the clock advances in steps of one minute
FreshMs == 5 * 60 * 1000      \* "age < 5 * 60 * 1000"

(***************************************************************************)
(* OfflineStorage (offline-storage.ts)                                     *)
(***************************************************************************)
Users == {"u1", "u2"}

TRANSACTION_STORE == "offlineTransactions"
USER_DATA_STORE   == "userData"
CACHE_STORE       == "cacheData"
PAGE_STORES == {TRANSACTION_STORE, USER_DATA_STORE, CACHE_STORE}

\* what the user can ask to queue: Omit<OfflineTransaction, 'id'|'timestamp'|'status'>
TxInputs ==
    {[type |-> "bank_transfer",   amount |-> 2, recipientDetails |-> "account"],
     [type |-> "wallet_transfer", amount |-> 1, recipientDetails |-> "phone"],
     [type |-> "airtime",         amount |-> 1, recipientDetails |-> "bill"]}

\* addTransactionToQueue: { ...transaction, id: `offline_${Date.now()}_...`,
\* timestamp: Date.now(), status: 'queued' }
QueuedTransaction(transaction, t) ==
    [type |-> transaction.type, amount |-> transaction.amount,
     recipientDetails |-> transaction.recipientDetails,
     id |-> <<"offline", t>>, timestamp |-> t, status |-> "queued"]

\* mutant: the record is stored without the caller's user id
WithUserId_Dropped(transaction, userId) ==
    [f \in DOMAIN transaction \cup {"userId"} |->
        IF f = "userId" THEN "undefined" ELSE transaction[f]]

\* { ...transaction, userId }
WithUserId(transaction, userId) ==
    [f \in DOMAIN transaction \cup {"userId"} |->
        IF f = "userId" THEN userId ELSE transaction[f]]

\* ({ userId, ...transaction }) => transaction
WithoutUserId(stored) ==
    [f \in DOMAIN stored \ {"userId"} |-> stored[f]]

\* indexedDB.open(DB_NAME, DB_VERSION): onupgradeneeded creates the page's
\* stores only when the database does not exist yet
PageOpen(stores) == IF stores = {} THEN PAGE_STORES ELSE stores

\* How a call can fail: "open" = indexedDB.open fires onerror, "request" =
\* the IDBRequest fires onerror, "none" = neither.
Failures == {"none", "open", "request"}

\* ensureInitialized, then "this.db.transaction([TRANSACTION_STORE], ...)":
\* the call goes through iff the database opens and holds the store
Opens(init, fail) == init \/ fail # "open"

Reaches(init, stores, fail) ==
    /\ Opens(init, fail)
    /\ TRANSACTION_STORE \in (IF init THEN stores ELSE PageOpen(stores))
    /\ fail # "request"

StoresAfter(init, stores, fail) ==
    IF ~init /\ Opens(init, fail) THEN PageOpen(stores) ELSE stores

Rejection(init, stores, fail, what) ==
    IF ~Opens(init, fail) THEN "Failed to open IndexedDB"
    ELSE IF TRANSACTION_STORE \notin StoresAfter(init, stores, fail)
    THEN "NotFoundError"
    ELSE what

\* how a call settled: resolved (ok) or rejected (error), with what it was
\* called with (user, id) and, for getOfflineTransactions, what it resolved to
Settled(op, userId, id, ok, error, list) ==
    [op |-> op, user |-> userId, id |-> id, ok |-> ok, error |-> error,
     list |-> list]

NoId == <<"offline", -1>>

\* store.add: a key that exists already is a ConstraintError
AddOfflineTransaction(store, userId, transaction) ==
    store \cup {WithUserId(transaction, userId)}

\* index('userId').getAll(userId): in primary-key order
RECURSIVE InKeyOrder(_)
InKeyOrder(S) ==
    IF S = {} THEN <<>>
    ELSE LET first == CHOOSE r \in S : \A q \in S : r.id[2] <= q.id[2]
         IN <<first>> \o InKeyOrder(S \ {first})

\* Array.prototype.sort((a, b) => b.timestamp - a.timestamp), a stable sort
RECURSIVE InsertNewestFirst(_, _)
InsertNewestFirst(sorted, r) ==
    IF sorted = <<>> THEN <<r>>
    ELSE IF Head(sorted).timestamp >= r.timestamp
         THEN <<Head(sorted)>> \o InsertNewestFirst(Tail(sorted), r)
         ELSE <<r>> \o sorted

RECURSIVE SortNewestFirst(_)
SortNewestFirst(list) ==
    IF list = <<>> THEN <<>>
    ELSE InsertNewestFirst(SortNewestFirst(SubSeq(list, 1, Len(list) - 1)),
                           list[Len(list)])

GetOfflineTransactions(store, userId) ==
    LET all == InKeyOrder({r \in store : r.userId = userId})
    IN SortNewestFirst([i \in 1..Len(all) |-> WithoutUserId(all[i])])

\* { ...existingTransaction, ...updates }
Merged(existing, updates) ==
    [f \in DOMAIN existing |-> IF f \in DOMAIN updates THEN updates[f] ELSE existing[f]]

\* store.get(transactionId), then store.put(updatedTransaction): put writes
\* under the key the merged record carries (keyPath 'id')
UpdateOfflineTransaction(store, transactionId, updates) ==
    IF ~\E r \in store : r.id = transactionId THEN store
    ELSE LET existingTransaction == CHOOSE r \in store : r.id = transactionId
             updatedTransaction == Merged(existingTransaction, updates)
         IN {r \in store : r.id # updatedTransaction.id} \cup {updatedTransaction}

\* store.delete(transactionId)
RemoveOfflineTransaction(store, transactionId) ==
    {r \in store : r.id # transactionId}

\* index('userId').openCursor(userId), deleting under the cursor
ClearOfflineTransactions(store, userId) ==
    {r \in store : r.userId # userId}

(***************************************************************************)
(* useOfflineQueue (use-offline-queue.tsx)                                 *)
(*                                                                         *)
(* A function of the hook reads the state values of the render that        *)
(* created it (view for the handlers the UI holds, mountView for the       *)
(* listeners registered by the effect with the empty dependency list);     *)
(* the functional updates setX(prev => ...) act on the current state.      *)
(***************************************************************************)
NoUser == "none"
HookUser == "u1"

Closure(u, on, proc, q) ==
    [user |-> u, isOnline |-> on, isProcessing |-> proc, queuedTransactions |-> q]

CurrentState == Closure(user, isOnline, isProcessing, queuedTransactions)

Ids(q) == {q[i].id : i \in 1..Len(q)}

\* prev.map(t => t.id === id ? { ...t, status } : t)
SetStatus(q, id, status) ==
    [i \in 1..Len(q) |-> IF q[i].id = id THEN [q[i] EXCEPT !.status = status] ELSE q[i]]

\* prev.filter(t => t.id !== id)
Without(q, id) == SelectSeq(q, LAMBDA t : t.id # id)

\* switch (transaction.type)
EndpointOf(type) ==
    IF type = "bank_transfer" THEN P_TRANSFER_BANK
    ELSE IF type = "wallet_transfer" THEN P_TRANSFER_WALLET
    ELSE P_BILLS_PURCHASE

\* "for (const transaction of queuedTransactions) { if (transaction.status
\* !== 'queued') continue; ...": the records of the closure's array that the
\* loop attempts, in the order of the array
ToAttempt(snap) == SelectSeq(snap, LAMBDA t : t.status = "queued")

\* "if (!user || !isOnline || isProcessing || queuedTransactions.length === 0) return"
Guard(c) ==
    /\ c.user # NoUser
    /\ c.isOnline
    /\ ~c.isProcessing
    /\ Len(c.queuedTransactions) # 0

\* a call of processQueuedTransactions: where it is suspended (pc), the
\* records its loop has still to go through, the current one first (todo),
\* the number of records it has submitted (n), who called it (src), and the
\* toast it has shown for the current record (toast)
NoToast == ""
NoPass == [pc |-> "idle", todo |-> <<>>, n |-> 0, src |-> "", toast |-> NoToast]

Active(pass) == pass.pc \in {"fetch", "remove", "delay"}

FreeSlots == {p \in 1..MaxPasses : passes[p] = NoPass}

\* the fetch of record t by pass p
Submission(p, t) ==
    [pass |-> p, id |-> t.id, endpoint |-> EndpointOf(t.type)]

QueuedIds(q) == {q[i].id : i \in {k \in 1..Len(q) : q[k].status = "queued"}}

\* processQueuedTransactions called with closure c, up to its first await;
\* q is the current queue
ProcessQueuedTransactions(c, q, src) ==
    IF ~Guard(c)
    THEN /\ queuedTransactions' = q
         /\ UNCHANGED <<isProcessing, passes, inflight>>
    ELSE LET todo == ToAttempt(c.queuedTransactions) IN
         IF todo = <<>>
         THEN \* nothing to attempt: setIsProcessing(true) ... (false)
              /\ isProcessing' = FALSE
              /\ queuedTransactions' = q
              /\ UNCHANGED <<passes, inflight>>
         ELSE /\ FreeSlots # {}
              /\ LET p == CHOOSE f \in FreeSlots : \A g \in FreeSlots : f <= g
                 IN /\ isProcessing' = TRUE
                    /\ queuedTransactions' = SetStatus(q, todo[1].id, "processing")
                    /\ passes' = [passes EXCEPT ![p] =
                           [pc |-> "fetch", todo |-> todo, n |-> 1, src |-> src,
                            toast |-> NoToast]]
                    /\ inflight' = inflight \cup {Submission(p, todo[1])}

\* a handler or a continuation runs before React has rendered the updates
\* of the previous ones
Ran ==
    /\ stale < MaxStale
    /\ stale' = stale + 1

\* React renders: the handlers the UI holds now close over the current state
Render ==
    /\ stale > 0
    /\ stale' = 0
    /\ view' = CurrentState
    /\ UNCHANGED <<swVars, srvVars, dbStores, storeVars, user, isOnline, isProcessing,
                   queuedTransactions, mountView, passes, loads, inflight>>

\* window 'online': handleOnline, registered by useEffect(..., [])
HandleOnline ==
    /\ Ran
    /\ ~isOnline
    /\ isOnline' = TRUE
    /\ ProcessQueuedTransactions(mountView, queuedTransactions, "online")
    /\ UNCHANGED <<swVars, srvVars, dbStores, storeVars, user, view, mountView, loads>>

\* window 'offline': handleOffline
HandleOffline ==
    /\ Ran
    /\ isOnline
    /\ isOnline' = FALSE
    /\ UNCHANGED <<swVars, srvVars, dbStores, storeVars, user, isProcessing,
                   queuedTransactions, view, mountView, passes, loads, inflight>>

\* addTransactionToQueue(transaction); fail: the store request fails
AddTransactionToQueue(transaction, fail) ==
    /\ Ran
    /\ view.user # NoUser
    /\ now < MaxRecords
    /\ now' = now + 1
    /\ LET q == QueuedTransaction(transaction, now) IN
         IF fail = "none"
         THEN /\ txStore' = AddOfflineTransaction(txStore, view.user, q)
              /\ queuedTransactions' = Append(queuedTransactions, q)
         ELSE UNCHANGED <<txStore, queuedTransactions>>
    /\ UNCHANGED <<apiCache, offlineQueue, swResp, swSeq, srvVars, dbStores, isInitialized,
                   stResult, user, isOnline, isProcessing, view, mountView,
                   passes, loads, inflight>>

\* the UI calls the processQueuedTransactions it was handed
CallProcessQueuedTransactions ==
    /\ Ran
    /\ Guard(view)
    /\ ProcessQueuedTransactions(view, queuedTransactions, "ui")
    /\ UNCHANGED <<swVars, srvVars, dbStores, storeVars, user, isOnline, view, mountView, loads>>

\* retryFailedTransaction(transactionId)
RetryFailedTransaction(transactionId) ==
    /\ Ran
    /\ \E i \in 1..Len(view.queuedTransactions) :
           /\ view.queuedTransactions[i].id = transactionId
           /\ view.queuedTransactions[i].status = "failed"
    /\ IF view.isOnline
       THEN ProcessQueuedTransactions(view,
                SetStatus(queuedTransactions, transactionId, "queued"), "retry")
       ELSE /\ queuedTransactions' =
                   SetStatus(queuedTransactions, transactionId, "queued")
            /\ UNCHANGED <<isProcessing, passes, inflight>>
    /\ UNCHANGED <<swVars, srvVars, dbStores, storeVars, user, isOnline, view, mountView, loads>>

\* removeTransaction(transactionId)
RemoveTransaction(transactionId, fail) ==
    /\ Ran
    /\ view.user # NoUser
    /\ transactionId \in Ids(view.queuedTransactions)
    /\ IF fail = "none"
       THEN /\ txStore' = RemoveOfflineTransaction(txStore, transactionId)
            /\ queuedTransactions' = Without(queuedTransactions, transactionId)
       ELSE UNCHANGED <<txStore, queuedTransactions>>
    /\ UNCHANGED <<swVars, srvVars, dbStores, isInitialized, stResult, user, isOnline,
                   isProcessing, view, mountView, passes, loads, inflight>>

\* clearQueue(); failAt = k > 0: the k-th removeFromOfflineQueue rejects
ClearQueue(failAt) ==
    /\ Ran
    /\ view.user # NoUser
    /\ failAt \in 0..Len(view.queuedTransactions)
    /\ LET snap == view.queuedTransactions
           done == IF failAt = 0 THEN Len(snap) ELSE failAt - 1
       IN /\ txStore' = {r \in txStore : r.id \notin {snap[i].id : i \in 1..done}}
          /\ queuedTransactions' = IF failAt = 0 THEN <<>> ELSE queuedTransactions
    /\ UNCHANGED <<swVars, srvVars, dbStores, isInitialized, stResult, user, isOnline,
                   isProcessing, view, mountView, passes, loads, inflight>>

\* loadQueuedTransactions(), up to "await getOfflineQueue(user.id)"
LoadQueuedTransactions ==
    /\ Ran
    /\ view.user # NoUser
    /\ loads = 0
    /\ loads' = loads + 1
    /\ UNCHANGED <<swVars, srvVars, dbStores, storeVars, user, isOnline, isProcessing,
                   queuedTransactions, view, mountView, passes, inflight>>

\* getOfflineQueue settles: setQueuedTransactions(queue), or the catch
LoadSettles(fail) ==
    /\ Ran
    /\ loads > 0
    /\ loads' = loads - 1
    /\ IF fail = "none"
       THEN /\ queuedTransactions' = GetOfflineTransactions(txStore, user)
       ELSE UNCHANGED queuedTransactions
    /\ UNCHANGED <<swVars, srvVars, dbStores, storeVars, user, isOnline,
                   isProcessing, view, mountView, passes, inflight>>

PassRecord(p) == passes[p].todo[1]

\* the toast of the failure branches: "Transaction Failed" after a response
\* that is not ok, none in the catch
FailureToast(outcome) ==
    IF outcome = "httperr" THEN "Transaction Failed" ELSE NoToast

\* a loop whose failure branches leave the loop (a throw that is not caught
\* inside the loop body)
FetchSettles_FailureEndsPass(p, outcome) ==
    /\ Ran
    /\ passes[p].pc = "fetch"
    /\ isOnline \/ outcome = "throw"
    /\ inflight' = {a \in inflight : a.pass # p}
    /\ IF outcome = "ok"
       THEN /\ passes' = [passes EXCEPT ![p].pc = "remove"]
            /\ UNCHANGED queuedTransactions
       ELSE /\ passes' = [passes EXCEPT ![p] = NoPass]
            /\ queuedTransactions' =
                   SetStatus(queuedTransactions, PassRecord(p).id, "failed")
    /\ UNCHANGED <<swVars, srvVars, dbStores, storeVars, user, isOnline, isProcessing,
                   view, mountView, loads>>

\* "await fetch(endpoint, ...)" settles for pass p
FetchSettles(p, outcome) ==
    /\ Ran
    /\ passes[p].pc = "fetch"
    /\ isOnline \/ outcome = "throw"
    /\ inflight' = {a \in inflight : a.pass # p}
    /\ IF outcome = "ok"
       THEN \* response.ok: "await removeFromOfflineQueue(user.id, transaction.id)"
            /\ passes' = [passes EXCEPT ![p].pc = "remove"]
            /\ UNCHANGED queuedTransactions
       ELSE \* !response.ok: the record is marked failed, with a toast; the
            \* catch (fetch rejected): marked failed, console.error only
            /\ passes' = [passes EXCEPT ![p].pc = "delay",
                                        ![p].toast = FailureToast(outcome)]
            /\ queuedTransactions' =
                   SetStatus(queuedTransactions, PassRecord(p).id, "failed")
    /\ UNCHANGED <<swVars, srvVars, dbStores, storeVars, user, isOnline, isProcessing,
                   view, mountView, loads>>

\* removeFromOfflineQueue settles for pass p
RemoveSettles(p, fail) ==
    /\ Ran
    /\ passes[p].pc = "remove"
    /\ IF fail = "none"
       THEN /\ txStore' = RemoveOfflineTransaction(txStore, PassRecord(p).id)
            /\ queuedTransactions' = Without(queuedTransactions, PassRecord(p).id)
            /\ passes' = [passes EXCEPT ![p].pc = "delay",
                                        ![p].toast = "Transaction Processed"]
       ELSE \* the rejection lands in the catch: marked failed
            /\ passes' = [passes EXCEPT ![p].pc = "delay"]
            /\ queuedTransactions' =
                   SetStatus(queuedTransactions, PassRecord(p).id, "failed")
            /\ UNCHANGED txStore
    /\ UNCHANGED <<swVars, srvVars, dbStores, isInitialized, stResult, user, isOnline,
                   isProcessing, view, mountView, loads, inflight>>

\* mutant: the loop goes on to its next record without awaiting the fetch
DelayElapses_NoAwait(p) ==
    /\ Ran
    /\ passes[p].pc \in {"fetch", "delay"}
    /\ LET rest == Tail(passes[p].todo) IN
         IF rest = <<>>
         THEN \* finally: setIsProcessing(false)
              /\ isProcessing' = FALSE
              /\ passes' = [passes EXCEPT ![p] = NoPass]
              /\ UNCHANGED <<queuedTransactions, inflight>>
         ELSE /\ queuedTransactions' =
                     SetStatus(queuedTransactions, rest[1].id, "processing")
              /\ passes' = [passes EXCEPT ![p].pc = "fetch", ![p].todo = rest,
                                             ![p].n = @ + 1, ![p].toast = NoToast]
              /\ inflight' = inflight \cup {Submission(p, rest[1])}
              /\ UNCHANGED isProcessing
    /\ UNCHANGED <<swVars, srvVars, dbStores, storeVars, user, isOnline, view, mountView, loads>>

\* "await new Promise(resolve => setTimeout(resolve, 1000))" elapses for
\* pass p: the loop goes on to its next queued record, or ends
DelayElapses(p) ==
    /\ Ran
    /\ passes[p].pc = "delay"
    /\ LET rest == Tail(passes[p].todo) IN
         IF rest = <<>>
         THEN \* finally: setIsProcessing(false)
              /\ isProcessing' = FALSE
              /\ passes' = [passes EXCEPT ![p] = NoPass]
              /\ UNCHANGED <<queuedTransactions, inflight>>
         ELSE /\ queuedTransactions' =
                     SetStatus(queuedTransactions, rest[1].id, "processing")
              /\ passes' = [passes EXCEPT ![p].pc = "fetch", ![p].todo = rest,
                                             ![p].n = @ + 1, ![p].toast = NoToast]
              /\ inflight' = inflight \cup {Submission(p, rest[1])}
              /\ UNCHANGED isProcessing
    /\ UNCHANGED <<swVars, srvVars, dbStores, storeVars, user, isOnline, view, mountView, loads>>

\* the page is closed and opened again (while the device is online): the
\* hook mounts with fresh state, the effect on [user] loads the queue; the
\* calls in progress are gone
Reload ==
    /\ isOnline
    /\ queuedTransactions # <<>> \/ FreeSlots # 1..MaxPasses
    /\ isProcessing' = FALSE
    /\ queuedTransactions' = <<>>
    /\ view' = Closure(user, isOnline, FALSE, <<>>)
    /\ mountView' = Closure(user, isOnline, FALSE, <<>>)
    /\ passes' = [p \in 1..MaxPasses |-> NoPass]
    /\ inflight' = {}
    /\ loads' = 1
    /\ stale' = 0
    /\ UNCHANGED <<swVars, srvVars, dbStores, storeVars, user, isOnline>>

\* the hook after its first render, the page having been opened while the
\* device was online
HookInit ==
    /\ user = HookUser
    /\ isOnline = TRUE
    /\ isProcessing = FALSE
    /\ queuedTransactions = <<>>
    /\ view = Closure(user, isOnline, FALSE, <<>>)
    /\ mountView = Closure(user, isOnline, FALSE, <<>>)
    /\ passes = [p \in 1..MaxPasses |-> NoPass]
    /\ loads = 1
    /\ stale = 0
    /\ inflight = {}

\* the hook variables while no hook is mounted
HookIdle ==
    /\ user = NoUser
    /\ isOnline = TRUE
    /\ isProcessing = FALSE
    /\ queuedTransactions = <<>>
    /\ view = Closure(NoUser, TRUE, FALSE, <<>>)
    /\ mountView = Closure(NoUser, TRUE, FALSE, <<>>)
    /\ passes = [p \in 1..MaxPasses |-> NoPass]
    /\ loads = 0
    /\ stale = 0
    /\ inflight = {}

\* OfflineStorage before its first call: "private isInitialized = false"
StoreInit ==
    /\ isInitialized = FALSE
    /\ txStore = {}
    /\ stResult = Settled("none", "", NoId, TRUE, "", <<>>)

(***************************************************************************)
(* The server: storage (part_003) and the routes (part_004)                *)
(*                                                                         *)
(* Amounts and balances are whole currency units.  A handler is cut at the *)
(* awaits between which another handler can change what it has read.       *)
(***************************************************************************)
NoTx == [id |-> 0, userId |-> "", type |-> "", amount |-> 0, status |-> "",
         squadReference |-> 0]

NoWebhook == [n |-> 0, reference |-> 0, status |-> "", code |-> 0, message |-> "",
              delivered |-> {}]

\* DatabaseStorage.getTransactions(userId, limit): the user's rows, newest
\* first, at most limit of them
RECURSIVE NewestFirst(_)
NewestFirst(rows) ==
    IF rows = <<>> THEN <<>>
    ELSE <<rows[Len(rows)]>> \o NewestFirst(SubSeq(rows, 1, Len(rows) - 1))

\* a lookup that returns the rows of every user, as the webhook handler's
\* comment ("Get all recent transactions") expects
GetTransactions_AllUsers(userId, limit) ==
    LET mine == NewestFirst(transactions)
    IN SubSeq(mine, 1, IF Len(mine) < limit THEN Len(mine) ELSE limit)

GetTransactions(userId, limit) ==
    LET mine == NewestFirst(SelectSeq(transactions, LAMBDA t : t.userId = userId))
    IN SubSeq(mine, 1, IF Len(mine) < limit THEN Len(mine) ELSE limit)

\* transactions.find(t => t.squadReference === transaction_reference)
FindBySquadReference(rows, reference) ==
    LET hits == {i \in 1..Len(rows) : rows[i].squadReference = reference}
    IN IF hits = {} THEN NoTx
       ELSE rows[CHOOSE i \in hits : \A j \in hits : i <= j]

\* DatabaseStorage.createTransaction: the row it inserts (status defaults to
\* 'pending', squadReference to null)
NewTransaction(userId, type, amount, status) ==
    [id |-> Len(transactions) + 1, userId |-> userId, type |-> type,
     amount |-> amount, status |-> status, squadReference |-> 0]

\* DatabaseStorage.updateTransaction(id, updates)
UpdateTransaction(rows, id, status, squadReference) ==
    [i \in 1..Len(rows) |->
        IF rows[i].id = id
        THEN [rows[i] EXCEPT !.status = status, !.squadReference = squadReference]
        ELSE rows[i]]

\* DatabaseStorage.updateWalletBalance(userId, balance)
UpdateWalletBalance(w, userId, balance) == [w EXCEPT ![userId] = balance]

\* transaction.amount.replace('-', '')
Unsigned(amount) == IF amount < 0 THEN 0 - amount ELSE amount

\* mutant: the balance check lets every amount through
InsufficientBalance_Never(balance, amount) == FALSE

\* "if (walletBalance < parseFloat(amount))"
InsufficientBalance(balance, amount) == balance < amount

\* storage.getUserByPhone(recipientPhone)
Phones == {"phone-u1", "phone-u2", "phone-unknown"}
GetUserByPhone(phone) ==
    IF phone = "phone-u1" THEN "u1"
    ELSE IF phone = "phone-u2" THEN "u2"
    ELSE NoUser

Request(kind, origin, userId, amount) ==
    [kind |-> kind, origin |-> origin, userId |-> userId, amount |-> amount,
     recipient |-> NoUser, pc |-> "done", status |-> 0, balance |-> 0,
     recipientBalance |-> 0, tx |-> 0]

\* res.status(code).json(...)
Responded(req, code) == [req EXCEPT !.pc = "done", !.status = code]

\* POST /api/transfer/bank, up to "await squadAPI.initiateTransfer"; origin
\* is the queued record whose data the request carries
TransferBank(origin, amount, pinOk) ==
    /\ Len(reqs) < MaxSrvRequests
    /\ LET req == Request("bank", origin, HookUser, amount) IN
         IF ~pinOk
         THEN /\ reqs' = Append(reqs, Responded(req, 401))
              /\ UNCHANGED transactions
         ELSE IF InsufficientBalance(wallets[HookUser], amount)
         THEN /\ reqs' = Append(reqs, Responded(req, 400))
              /\ UNCHANGED transactions
         ELSE LET t == NewTransaction(HookUser, "bank_transfer", amount, "pending")
              IN /\ transactions' = Append(transactions, t)
                 /\ reqs' = Append(reqs, [req EXCEPT !.pc = "squad",
                                            !.balance = wallets[HookUser],
                                            !.tx = t.id])
    /\ UNCHANGED <<swVars, dbStores, storeVars, hookVars, wallets, webhook>>

\* squadAPI.initiateTransfer settles, up to "await storage.updateWalletBalance";
\* the processor's reference for the transfer of request r is r
SquadOutcomes == {"success", "declined", "throw"}
SquadSettles(r, outcome) ==
    /\ reqs[r].pc = "squad"
    /\ IF outcome = "success"
       THEN /\ transactions' =
                 UpdateTransaction(transactions, reqs[r].tx, "pending", r)
            /\ reqs' = [reqs EXCEPT ![r].pc = "debit"]
       ELSE /\ transactions' = UpdateTransaction(transactions, reqs[r].tx, "failed", 0)
            /\ reqs' = [reqs EXCEPT ![r] =
                          Responded(@, IF outcome = "declined" THEN 400 ELSE 500)]
    /\ UNCHANGED <<swVars, dbStores, storeVars, hookVars, wallets, webhook>>

\* a debit that reads the balance again when it writes (an atomic
\* "balance = balance - amount")
BankDebit_ReadsCurrentBalance(r) ==
    /\ reqs[r].pc = "debit"
    /\ wallets' = UpdateWalletBalance(wallets, reqs[r].userId,
                                      wallets[reqs[r].userId] - reqs[r].amount)
    /\ reqs' = [reqs EXCEPT ![r] = Responded(@, 200)]
    /\ UNCHANGED <<swVars, dbStores, storeVars, hookVars, transactions, webhook>>

\* "Deduct from wallet": the balance read before the transfer, less the amount
BankDebit(r) ==
    /\ reqs[r].pc = "debit"
    /\ wallets' = UpdateWalletBalance(wallets, reqs[r].userId,
                                      reqs[r].balance - reqs[r].amount)
    /\ reqs' = [reqs EXCEPT ![r] = Responded(@, 200)]
    /\ UNCHANGED <<swVars, dbStores, storeVars, hookVars, transactions, webhook>>

\* POST /api/transfer/wallet, up to "await storage.getWallet(recipient.id)"
TransferWallet(origin, amount, pinOk, phone) ==
    /\ Len(reqs) < MaxSrvRequests
    /\ LET req == Request("wallet", origin, HookUser, amount) IN
         IF ~pinOk
         THEN reqs' = Append(reqs, Responded(req, 401))
         ELSE IF GetUserByPhone(phone) = NoUser
         THEN reqs' = Append(reqs, Responded(req, 404))
         ELSE IF InsufficientBalance(wallets[HookUser], amount)
         THEN reqs' = Append(reqs, Responded(req, 400))
         ELSE reqs' = Append(reqs, [req EXCEPT !.pc = "recipient",
                                      !.recipient = GetUserByPhone(phone),
                                      !.balance = wallets[HookUser]])
    /\ UNCHANGED <<swVars, dbStores, storeVars, hookVars, wallets, transactions, webhook>>

\* the recipient's wallet is read and both transaction rows are created.
\* The sender's row has amount `-${amount}`: for a negative amount that is
\* "--1", which the decimal column rejects, and the catch answers 500
WalletRecipientRead(r) ==
    /\ reqs[r].pc = "recipient"
    /\ IF reqs[r].amount < 0
       THEN /\ reqs' = [reqs EXCEPT ![r] = Responded(@, 500)]
            /\ UNCHANGED transactions
       ELSE LET t1 == NewTransaction(reqs[r].userId, "wallet_transfer",
                                     0 - reqs[r].amount, "success")
                t2 == [NewTransaction(reqs[r].recipient, "wallet_transfer",
                                      reqs[r].amount, "success") EXCEPT !.id = t1.id + 1]
            IN /\ transactions' = transactions \o <<t1, t2>>
               /\ reqs' = [reqs EXCEPT ![r].pc = "sender",
                                  ![r].recipientBalance = wallets[reqs[r].recipient],
                                  ![r].tx = t1.id]
    /\ UNCHANGED <<swVars, dbStores, storeVars, hookVars, wallets, webhook>>

\* "await storage.updateWalletBalance(req.userId!, newSenderBalance)"
WalletDebitSender(r) ==
    /\ reqs[r].pc = "sender"
    /\ wallets' = UpdateWalletBalance(wallets, reqs[r].userId,
                                      reqs[r].balance - reqs[r].amount)
    /\ reqs' = [reqs EXCEPT ![r].pc = "credit"]
    /\ UNCHANGED <<swVars, dbStores, storeVars, hookVars, transactions, webhook>>

\* "await storage.updateWalletBalance(recipient.id, newRecipientBalance)"
WalletCreditRecipient(r) ==
    /\ reqs[r].pc = "credit"
    /\ wallets' = UpdateWalletBalance(wallets, reqs[r].recipient,
                                      reqs[r].recipientBalance + reqs[r].amount)
    /\ reqs' = [reqs EXCEPT ![r] = Responded(@, 200)]
    /\ UNCHANGED <<swVars, dbStores, storeVars, hookVars, transactions, webhook>>

\* POST /api/webhooks/squad with { transaction_reference, transaction_status }
WebhookLimit == 1000
WebhookStatuses == {"success", "failed", "reversed"}
\* the callbacks the processor has delivered so far, this one included
Delivered(reference, status) == webhook.delivered \cup {<<reference, status>>}

\* a handler that answers 404 when it finds no transaction
WebhookSquad_RejectsUnknown(reference, status) ==
    /\ webhook.n < MaxWebhooks
    /\ LET transaction ==
              FindBySquadReference(GetTransactions("", WebhookLimit), reference)
       IN IF transaction # NoTx
          THEN /\ webhook' = [n |-> webhook.n + 1, reference |-> reference,
                              status |-> status, code |-> 200,
                              message |-> "Webhook processed",
                              delivered |-> Delivered(reference, status)]
               /\ wallets' =
                    IF status = "failed"
                    THEN UpdateWalletBalance(wallets, transaction.userId,
                            wallets[transaction.userId] + Unsigned(transaction.amount))
                    ELSE wallets
               /\ transactions' =
                    UpdateTransaction(transactions, transaction.id,
                        IF status \in {"success", "failed"} THEN status ELSE "pending",
                        transaction.squadReference)
          ELSE /\ webhook' = [n |-> webhook.n + 1, reference |-> reference,
                              status |-> status, code |-> 404,
                              message |-> "Transaction not found",
                              delivered |-> Delivered(reference, status)]
               /\ UNCHANGED <<wallets, transactions>>
    /\ UNCHANGED <<swVars, dbStores, storeVars, hookVars, reqs>>

\* the answer is res.json({ message: "Webhook processed" }), status 200,
\* whether or not a transaction was found
WebhookSquad(reference, status) ==
    /\ webhook.n < MaxWebhooks
    /\ webhook' = [n |-> webhook.n + 1, reference |-> reference, status |-> status,
                   code |-> 200, message |-> "Webhook processed",
                   delivered |-> Delivered(reference, status)]
    /\ LET transaction ==
              FindBySquadReference(GetTransactions("", WebhookLimit), reference)
       IN IF transaction # NoTx
          THEN /\ wallets' =
                    IF status = "failed"
                    THEN UpdateWalletBalance(wallets, transaction.userId,
                            wallets[transaction.userId] + Unsigned(transaction.amount))
                    ELSE wallets
               /\ transactions' =
                    UpdateTransaction(transactions, transaction.id,
                        IF status \in {"success", "failed"} THEN status ELSE "pending",
                        transaction.squadReference)
          ELSE UNCHANGED <<wallets, transactions>>
    /\ UNCHANGED <<swVars, dbStores, storeVars, hookVars, reqs>>

\* the server while no request has reached it
ServerIdle ==
    /\ wallets = [u \in Users |-> 0]
    /\ transactions = <<>>
    /\ reqs = <<>>
    /\ webhook = NoWebhook

(***************************************************************************)
(* Responses                                                               *)
(***************************************************************************)
NoResp ==
    [kind |-> "none", method |-> "", path |-> <<>>, fetch |-> "none",
     status |-> 0, src |-> "none", body |-> 0, cacheDate |-> <<>>,
     error |-> "", offline |-> FALSE]

\* what fetch(request) can do: resolve with an ok response, resolve with a
\* response that is not ok, or reject (network unreachable)
FetchOutcomes ==
    {[fetch |-> "ok", status |-> 200, body |-> b] : b \in Bodies}
    \cup {[fetch |-> "httperr", status |-> 500, body |-> 0],
          [fetch |-> "throw", status |-> 0, body |-> 0]}

NetworkResponse(kind, method, path, o) ==
    [NoResp EXCEPT !.kind = kind, !.method = method, !.path = path,
                   !.fetch = o.fetch, !.status = o.status, !.src = "network",
                   !.body = o.body]

ErrorResponse(kind, method, path, o, err) ==
    [NoResp EXCEPT !.kind = kind, !.method = method, !.path = path,
                   !.fetch = o.fetch, !.status = 503, !.src = "synthetic",
                   !.error = err]

CachedResponse(path, fetched, e) ==
    [NoResp EXCEPT !.kind = "get", !.method = "GET", !.path = path,
                   !.fetch = fetched, !.status = e.status, !.src = "cache",
                   !.body = e.body, !.cacheDate = e.cacheDate]

QueuedResponse(method, path, o) ==
    [NoResp EXCEPT !.kind = "write", !.method = method, !.path = path,
                   !.fetch = o.fetch, !.status = 202, !.src = "synthetic",
                   !.offline = TRUE]

(***************************************************************************)
(* Cache API                                                               *)
(***************************************************************************)
CacheMatch(cache, path) == path \in DOMAIN cache

CachePut(cache, path, e) ==
    [p \in DOMAIN cache \cup {path} |-> IF p = path THEN e ELSE cache[p]]

IsCacheable(pathname) ==
    \E endpoint \in CACHEABLE_API_ENDPOINTS : StartsWith(pathname, endpoint)

IsNonCacheable(pathname) ==
    \E endpoint \in NON_CACHEABLE_ENDPOINTS : StartsWith(pathname, endpoint)

\* mutant: the freshness window taken as 5 seconds
IsFresh_ShortWindow(cache, path, t) ==
    /\ CacheMatch(cache, path)
    /\ cache[path].cacheDate # <<>>
    /\ t - ParseInt(cache[path].cacheDate) < 5 * 1000

\* "if (cachedResponse) { cacheDate = ...; if (cacheDate) { age < 5 min"
IsFresh(cache, path, t) ==
    /\ CacheMatch(cache, path)
    /\ cache[path].cacheDate # <<>>
    /\ t - ParseInt(cache[path].cacheDate) < FreshMs

(***************************************************************************)
(* handleAPIGet                                                            *)
(***************************************************************************)
\* mutant: the catch block falls back to the cache only while it is fresh
HandleAPIGetResult_NoStaleFallback(cache, path, t, o) ==
    IF ~IsCacheable(path)
    THEN [cache |-> cache,
          resp |-> IF o.fetch = "throw"
                   THEN ErrorResponse("get", "GET", path, o, "Network unavailable")
                   ELSE NetworkResponse("get", "GET", path, o)]
    ELSE IF IsFresh(cache, path, t)
    THEN [cache |-> cache, resp |-> CachedResponse(path, "none", cache[path])]
    ELSE IF o.fetch = "ok"
    THEN [cache |-> CachePut(cache, path,
                        [body |-> o.body, status |-> o.status,
                         cacheDate |-> ToStr(t)]),
          resp |-> NetworkResponse("get", "GET", path, o)]
    ELSE IF o.fetch = "httperr"
    THEN [cache |-> cache, resp |-> NetworkResponse("get", "GET", path, o)]
    ELSE [cache |-> cache,
          resp |-> ErrorResponse("get", "GET", path, o, "Offline")]

\* a worker that caches a response only when it has none yet (cache.add
\* semantics), so that an entry is never superseded
HandleAPIGetResult_KeepsFirstEntry(cache, path, t, o) ==
    IF ~IsCacheable(path)
    THEN [cache |-> cache,
          resp |-> IF o.fetch = "throw"
                   THEN ErrorResponse("get", "GET", path, o, "Network unavailable")
                   ELSE NetworkResponse("get", "GET", path, o)]
    ELSE IF IsFresh(cache, path, t)
    THEN [cache |-> cache, resp |-> CachedResponse(path, "none", cache[path])]
    ELSE IF o.fetch = "ok"
    THEN [cache |-> IF CacheMatch(cache, path) THEN cache
                    ELSE CachePut(cache, path,
                            [body |-> o.body, status |-> o.status,
                             cacheDate |-> ToStr(t)]),
          resp |-> NetworkResponse("get", "GET", path, o)]
    ELSE IF o.fetch = "httperr"
    THEN [cache |-> cache, resp |-> NetworkResponse("get", "GET", path, o)]
    ELSE IF CacheMatch(cache, path)
         THEN [cache |-> cache, resp |-> CachedResponse(path, "throw", cache[path])]
         ELSE [cache |-> cache,
               resp |-> ErrorResponse("get", "GET", path, o, "Offline")]

HandleAPIGetResult(cache, path, t, o) ==
    IF ~IsCacheable(path)
    THEN \* network only
         [cache |-> cache,
          resp |-> IF o.fetch = "throw"
                   THEN ErrorResponse("get", "GET", path, o, "Network unavailable")
                   ELSE NetworkResponse("get", "GET", path, o)]
    ELSE IF IsFresh(cache, path, t)
    THEN [cache |-> cache, resp |-> CachedResponse(path, "none", cache[path])]
    ELSE IF o.fetch = "ok"
    THEN [cache |-> CachePut(cache, path,
                        [body |-> o.body, status |-> o.status,
                         cacheDate |-> ToStr(t)]),
          resp |-> NetworkResponse("get", "GET", path, o)]
    ELSE IF o.fetch = "httperr"
    THEN [cache |-> cache, resp |-> NetworkResponse("get", "GET", path, o)]
    ELSE \* fetch rejected: any cached copy, else the offline message
         IF CacheMatch(cache, path)
         THEN [cache |-> cache, resp |-> CachedResponse(path, "throw", cache[path])]
         ELSE [cache |-> cache,
               resp |-> ErrorResponse("get", "GET", path, o, "Offline")]

HandleAPIGet(path, o) ==
    /\ swSeq < MaxSwRequests
    /\ StartsWith(path, API)
    /\ LET r == HandleAPIGetResult(apiCache, path, now, o) IN
         /\ apiCache' = r.cache
         /\ swResp' = r.resp
    /\ swSeq' = swSeq + 1
    /\ UNCHANGED <<now, offlineQueue, dbStores, nonSwVars>>

(***************************************************************************)
(* IndexedDB: the worker's openDB and storeOfflineTransaction              *)
(***************************************************************************)
WORKER_STORE == "offlineQueue"

\* indexedDB.open('FinXchangeOfflineDB', 1): onupgradeneeded runs only when
\* the database does not exist yet
OpenDB(stores) == IF stores = {} THEN {WORKER_STORE} ELSE stores

\* try { ... store.add(...) } catch { console.error }: a missing object
\* store makes db.transaction throw, which is swallowed
StoreOfflineTransaction(queue, stores, transaction, nonce) ==
    IF WORKER_STORE \in OpenDB(stores)
    THEN queue \cup {[endpoint |-> transaction.endpoint,
                      method |-> transaction.method,
                      body |-> transaction.body,
                      timestamp |-> transaction.timestamp,
                      id |-> <<"sw", transaction.timestamp, nonce>>]}
    ELSE queue

(***************************************************************************)
(* handleAPIRequest (non-GET)                                              *)
(***************************************************************************)
\* mutant: the branch without its "&& !isNonCacheable"
QueuesOffline_AnyTransfer(pathname) ==
    StartsWith(pathname, P_TRANSFER)

\* the condition of the offline-queue branch
QueuesOffline(pathname) ==
    StartsWith(pathname, P_TRANSFER) /\ ~IsNonCacheable(pathname)

HandleAPIRequest(method, path, o) ==
    /\ swSeq < MaxSwRequests
    /\ StartsWith(path, API)
    /\ IF o.fetch # "throw"
       THEN /\ swResp' = NetworkResponse("write", method, path, o)
            /\ UNCHANGED <<offlineQueue, dbStores>>
       ELSE IF QueuesOffline(path)
       THEN /\ \E body \in Bodies :  \* "await clonedRequest.json()"
                   offlineQueue' = StoreOfflineTransaction(offlineQueue, dbStores,
                                       [endpoint |-> path, method |-> method,
                                        body |-> body, timestamp |-> now], swSeq)
            /\ dbStores' = OpenDB(dbStores)
            /\ swResp' = QueuedResponse(method, path, o)
       ELSE /\ swResp' = ErrorResponse("write", method, path, o,
                                       "Network unavailable")
            /\ UNCHANGED <<offlineQueue, dbStores>>
    /\ swSeq' = swSeq + 1
    /\ UNCHANGED <<now, apiCache, nonSwVars>>

Tick ==
    /\ now < MaxTicks * TickMs
    /\ now' = now + TickMs
    /\ UNCHANGED <<apiCache, offlineQueue, swResp, swSeq, dbStores, nonSwVars>>

SwInit ==
    /\ now = 0
    /\ apiCache = [p \in {} |-> 0]
    /\ offlineQueue = {}
    /\ swResp = NoResp
    /\ swSeq = 0

InitSW ==
    /\ SwInit
    /\ dbStores \in {{}, {WORKER_STORE}}
    /\ StoreInit
    /\ HookIdle
    /\ ServerIdle

FetchAPIGet == \E path \in GetPaths, o \in FetchOutcomes : HandleAPIGet(path, o)

FetchAPIWrite ==
    \E method \in WriteMethods, path \in WritePaths, o \in FetchOutcomes :
        HandleAPIRequest(method, path, o)

NextSW == FetchAPIGet \/ FetchAPIWrite \/ Tick

SpecSW == InitSW /\ [][NextSW]_vars

(***************************************************************************)
(* The OfflineStorage calls on their own (SpecStore)                       *)
(***************************************************************************)
StoreCall(fail, what, op, userId, id, store2, list) ==
    /\ isInitialized' = (isInitialized \/ Opens(isInitialized, fail))
    /\ dbStores' = StoresAfter(isInitialized, dbStores, fail)
    /\ IF Reaches(isInitialized, dbStores, fail) /\ what = ""
       THEN /\ txStore' = store2
            /\ stResult' = Settled(op, userId, id, TRUE, "", list)
       ELSE /\ txStore' = txStore
            /\ stResult' = Settled(op, userId, id, FALSE,
                                Rejection(isInitialized, dbStores, fail, what), <<>>)

\* addTransactionToQueue's record, handed to addToOfflineQueue(user.id, ...)
StoreAdd(userId, input, fail) ==
    /\ now < MaxRecords
    /\ LET q == QueuedTransaction(input, now) IN
         StoreCall(fail,
                   IF fail = "request" \/ \E r \in txStore : r.id = q.id
                   THEN "Failed to add offline transaction" ELSE "",
                   "add", userId, q.id,
                   AddOfflineTransaction(txStore, userId, q), <<q>>)
    /\ now' = now + 1
    /\ UNCHANGED <<apiCache, offlineQueue, swResp, swSeq, hookVars, srvVars>>

\* getOfflineQueue(userId)
StoreList(userId, fail) ==
    /\ StoreCall(fail,
                 IF fail = "request" THEN "Failed to get offline transactions" ELSE "",
                 "list", userId, NoId,
                 txStore, GetOfflineTransactions(txStore, userId))
    /\ UNCHANGED <<swVars, hookVars, srvVars>>

StatusUpdates == {[status |-> "processing"], [status |-> "failed"]}

\* updates: Partial<OfflineTransaction>, any of the record's fields
FieldUpdates == StatusUpdates \cup {[id |-> <<"offline", 0>>]}

\* updateOfflineTransaction(transactionId, updates)
StoreUpdate(id, updates, fail) ==
    /\ StoreCall(fail,
                 IF fail = "request" THEN "Failed to find offline transaction"
                 ELSE IF ~\E r \in txStore : r.id = id THEN "Transaction not found"
                 ELSE "",
                 "update", "", id,
                 UpdateOfflineTransaction(txStore, id, updates), <<updates>>)
    /\ UNCHANGED <<swVars, hookVars, srvVars>>

\* a removal that looks the record up first, as updateOfflineTransaction does
StoreRemove_RejectsAbsent(id, fail) ==
    /\ StoreCall(fail,
                 IF fail = "request" THEN "Failed to remove offline transaction"
                 ELSE IF ~\E r \in txStore : r.id = id THEN "Transaction not found"
                 ELSE "",
                 "remove", "", id,
                 RemoveOfflineTransaction(txStore, id), <<>>)
    /\ UNCHANGED <<swVars, hookVars, srvVars>>

\* removeFromOfflineQueue(userId, transactionId)
StoreRemove(id, fail) ==
    /\ StoreCall(fail,
                 IF fail = "request" THEN "Failed to remove offline transaction" ELSE "",
                 "remove", "", id,
                 RemoveOfflineTransaction(txStore, id), <<>>)
    /\ UNCHANGED <<swVars, hookVars, srvVars>>

\* offlineStorage.clearOfflineTransactions(userId)
StoreClear(userId, fail) ==
    /\ StoreCall(fail,
                 IF fail = "request" THEN "Failed to clear offline transactions" ELSE "",
                 "clear", userId, NoId,
                 ClearOfflineTransactions(txStore, userId), <<>>)
    /\ UNCHANGED <<swVars, hookVars, srvVars>>

IdsTried == {<<"offline", t>> : t \in 0..(MaxRecords - 1)}

InitStore ==
    /\ SwInit
    /\ dbStores \in {{}, {WORKER_STORE}}
    /\ StoreInit
    /\ HookIdle
    /\ ServerIdle

Enqueue == \E u \in Users, input \in TxInputs, fail \in Failures : StoreAdd(u, input, fail)
List    == \E u \in Users, fail \in Failures : StoreList(u, fail)
Update  == \E id \in IdsTried, up \in FieldUpdates, fail \in Failures :
              StoreUpdate(id, up, fail)
Remove  == \E id \in IdsTried, fail \in Failures : StoreRemove(id, fail)
Clear   == \E u \in Users, fail \in Failures : StoreClear(u, fail)

NextStore == Enqueue \/ List \/ Update \/ Remove \/ Clear

SpecStore == InitStore /\ [][NextStore]_vars

(***************************************************************************)
(* The hook over the page's store (SpecQueue)                              *)
(***************************************************************************)
InitQueue ==
    /\ SwInit
    /\ dbStores = PAGE_STORES
    /\ isInitialized = TRUE
    /\ txStore = {}
    /\ stResult = Settled("none", "", NoId, TRUE, "", <<>>)
    /\ HookInit
    /\ ServerIdle

\* what the page queues while the hook is exercised
HookInputs == {t \in TxInputs : t.type = "bank_transfer"}

RequestFailures == {"none", "request"}
Outcomes == {"ok", "httperr", "throw"}

Add     == \E t \in HookInputs, fail \in RequestFailures : AddTransactionToQueue(t, fail)
Retry   == \E id \in IdsTried : RetryFailedTransaction(id)
RemoveTx == \E id \in IdsTried, fail \in RequestFailures : RemoveTransaction(id, fail)
ClearAll == \E k \in 0..MaxRecords : ClearQueue(k)
Loaded  == \E fail \in RequestFailures : LoadSettles(fail)
Fetched == \E p \in 1..MaxPasses, o \in Outcomes : FetchSettles(p, o)
Removed == \E p \in 1..MaxPasses, fail \in RequestFailures : RemoveSettles(p, fail)
Delayed == \E p \in 1..MaxPasses : DelayElapses(p)

NextQueue ==
    \/ Render
    \/ HandleOnline
    \/ HandleOffline
    \/ Add
    \/ CallProcessQueuedTransactions
    \/ Retry
    \/ RemoveTx
    \/ ClearAll
    \/ LoadQueuedTransactions
    \/ Loaded
    \/ Fetched
    \/ Removed
    \/ Delayed
    \/ Reload

SpecQueue == InitQueue /\ [][NextQueue]_vars

(***************************************************************************)
(* The server under the submissions of the drain passes (SpecServer)       *)
(*                                                                         *)
(* The passes are left out: any queued record may be submitted at any time *)
(* and any number of times (up to MaxSrvRequests), which covers every      *)
(* interleaving of overlapping passes.                                     *)
(***************************************************************************)
InitServer ==
    /\ SwInit
    /\ dbStores = PAGE_STORES
    /\ StoreInit
    /\ HookIdle
    /\ wallets \in [Users -> 0..MaxBalance]
    /\ transactions = <<>>
    /\ reqs = <<>>
    /\ webhook = NoWebhook

Origins == {<<"offline", t>> : t \in 0..(MaxRecords - 1)}

SubmitBank ==
    \E origin \in Origins, pinOk \in BOOLEAN,
       t \in {x \in TxInputs : x.type = "bank_transfer"} :
       TransferBank(origin, t.amount, pinOk)
SubmitWallet ==
    \E origin \in Origins, pinOk \in BOOLEAN, phone \in Phones,
       t \in {x \in TxInputs : x.type = "wallet_transfer"} :
       TransferWallet(origin, t.amount, pinOk, phone)
Squad    == \E r \in 1..Len(reqs), o \in SquadOutcomes : SquadSettles(r, o)
Debit    == \E r \in 1..Len(reqs) : BankDebit(r)
RecipientRead == \E r \in 1..Len(reqs) : WalletRecipientRead(r)
DebitSender   == \E r \in 1..Len(reqs) : WalletDebitSender(r)
Credit   == \E r \in 1..Len(reqs) : WalletCreditRecipient(r)
Callback == \E ref \in 1..MaxSrvRequests, st \in WebhookStatuses : WebhookSquad(ref, st)

NextServer ==
    \/ SubmitBank
    \/ SubmitWallet
    \/ Squad
    \/ Debit
    \/ RecipientRead
    \/ DebitSender
    \/ Credit
    \/ Callback

SpecServer == InitServer /\ [][NextServer]_vars

(***************************************************************************)
(* The transfer routes under any request body (SpecTransfers)              *)
(*                                                                         *)
(* The routes read amount from req.body as it comes; here the amount may   *)
(* also be zero or negative, as a client other than the page's form (which *)
(* validates with zod) can send it.                                        *)
(***************************************************************************)
BodyAmounts == {-1, 0, 1}

PostBank ==
    \E origin \in Origins, pinOk \in BOOLEAN, amount \in BodyAmounts :
       TransferBank(origin, amount, pinOk)
PostWallet ==
    \E origin \in Origins, pinOk \in BOOLEAN, phone \in Phones, amount \in BodyAmounts :
       TransferWallet(origin, amount, pinOk, phone)

NextTransfers ==
    \/ PostBank
    \/ PostWallet
    \/ Squad
    \/ Debit
    \/ RecipientRead
    \/ DebitSender
    \/ Credit

SpecTransfers == InitServer /\ [][NextTransfers]_vars

(***************************************************************************)
(* Claims about the hook (SpecQueue)                                       *)
(***************************************************************************)
InFlightOf(p) == {a \in inflight : a.pass = p}

\* C4: whenever connectivity goes to online while the queue holds records
\* in state queued, the drain triggered by the online event attempts every
\* one of those records; so the online event starts a pass whose loop has
\* all of them to go through (the first one is submitted before the
\* handler returns).
C4_OnlineEventDrainsQueuedRecords ==
    [][(/\ ~isOnline
        /\ isOnline'
        /\ user # NoUser
        /\ ~isProcessing
        /\ QueuedIds(queuedTransactions) # {})
       => \E p \in 1..MaxPasses :
             /\ passes[p] = NoPass
             /\ passes'[p].src = "online"
             /\ Ids(passes'[p].todo) = QueuedIds(queuedTransactions)]_vars

\* C5: a drain pass attempts the queued records in enqueue order, oldest
\* first, for records added in this session and for records loaded from the
\* durable store: the record a pass goes on to was enqueued after the one
\* it has just finished with.
C5_DrainInEnqueueOrder ==
    [][\A p \in 1..MaxPasses :
          (passes[p].pc = "delay" /\ passes'[p].pc = "fetch")
          => passes'[p].todo[1].timestamp > passes[p].todo[1].timestamp]_vars

\* C6: within one drain pass at most one submission is in flight at any
\* time, and the submission of the next record begins only after the
\* previous one has settled and the inter-record delay has been taken.
C6_OneSubmissionInFlightPerPass ==
    [][\A p \in 1..MaxPasses :
          /\ Cardinality(InFlightOf(p)') <= 1
          /\ (InFlightOf(p)' \ InFlightOf(p) # {})
             => /\ InFlightOf(p) = {}
                /\ passes[p].pc \in {"idle", "delay"}]_vars

\* a pass has its second submission in flight
C6_Witness ==
    \E p \in 1..MaxPasses :
       /\ passes[p].pc = "fetch"
       /\ passes[p].n = 2
       /\ Cardinality(InFlightOf(p)) = 1

\* the status the hook shows for record id ("" when it does not hold it)
StatusOf(q, id) ==
    IF id \in Ids(q) THEN (CHOOSE t \in {q[i] : i \in 1..Len(q)} : t.id = id).status
    ELSE ""

\* the step closes the page: its calls in progress are gone with it
PageCloses == stale' = 0 /\ passes' # passes

\* the attempt of pass p at its current record ends in one of the failure
\* branches (response not ok, fetch or removeFromOfflineQueue rejected)
AttemptFails(p) ==
    /\ passes[p].pc \in {"fetch", "remove"}
    /\ passes'[p].pc \notin {"fetch", "remove"}
    /\ PassRecord(p).id \in Ids(queuedTransactions')

\* C12: within a drain pass the failure of one record does not end the
\* pass: the record is marked failed, the pass keeps the rest of its batch,
\* and when its delay elapses it submits the next record of the batch; a
\* pass ends only after the last record of its batch (or with the page).
C12_FailureDoesNotAbortBatch ==
    [][\A p \in 1..MaxPasses :
          PageCloses \/
          /\ AttemptFails(p)
               => /\ StatusOf(queuedTransactions', PassRecord(p).id) = "failed"
                  /\ passes'[p].pc = "delay"
                  /\ passes'[p].todo = passes[p].todo
          /\ (passes[p].pc = "delay" /\ passes'[p] # passes[p])
               => IF Len(passes[p].todo) = 1 THEN passes'[p] = NoPass
                  ELSE /\ passes'[p].pc = "fetch"
                       /\ passes'[p].todo = Tail(passes[p].todo)
                       /\ Submission(p, passes[p].todo[2]) \in inflight'
          /\ (Active(passes[p]) /\ passes'[p] = NoPass)
               => passes[p].pc = "delay" /\ Len(passes[p].todo) = 1]_vars

\* a pass has submitted its second record after its first one had failed
C12_Witness ==
    \E p \in 1..MaxPasses :
        /\ passes[p].pc = "fetch"
        /\ passes[p].n = 2
        /\ FreeSlots = (1..MaxPasses) \ {p}
        /\ \E i \in 1..Len(queuedTransactions) :
               /\ queuedTransactions[i].status = "failed"
               /\ queuedTransactions[i].id # PassRecord(p).id

\* the step submits record id
Submits(id) == \E a \in inflight' \ inflight : a.id = id

\* C13: a record that is failed is not submitted and stays failed (or
\* leaves the queue) in every step that is not retryFailedTransaction of
\* that record: no drain pass, online event or load of the queue from the
\* durable store puts it back in line.
C13_FailedStaysFailedUntilRetry ==
    [][\A id \in IdsTried :
          StatusOf(queuedTransactions, id) = "failed"
          => \/ RetryFailedTransaction(id)
             \/ /\ ~Submits(id)
                /\ StatusOf(queuedTransactions', id) \in {"failed", ""}]_vars

\* the status changes of the record lifecycle; "" stands for a record the
\* hook does not hold (not enqueued or loaded yet, or deleted)
Lifecycle ==
    {<<"", "queued">>, <<"queued", "processing">>, <<"processing", "failed">>,
     <<"processing", "">>, <<"failed", "queued">>}

\* the user deletes records (removeTransaction, clearQueue) or closes the page
UserDeletes == RemoveTx \/ ClearAll \/ Reload

\* C14: in every step of the hook other than a deletion by the user, the
\* status of a record stays as it is or changes along queued->processing,
\* processing->failed, processing->deleted or failed->queued, the last one
\* only in retryFailedTransaction of that record.
C14_StatusChangesFollowLifecycle ==
    [][\A id \in IdsTried :
          LET from == StatusOf(queuedTransactions, id)
              to == StatusOf(queuedTransactions', id)
          IN \/ from = to
             \/ UserDeletes
             \/ /\ <<from, to>> \in Lifecycle
                /\ (from = "failed") => RetryFailedTransaction(id)]_vars

\* the step calls processQueuedTransactions: from the UI, from the online
\* event, or from retryFailedTransaction
DrainerInvoked ==
    \/ CallProcessQueuedTransactions
    \/ HandleOnline
    \/ \E id \in IdsTried : RetryFailedTransaction(id)

\* C18: a call of the drainer made while a drain pass is in progress, while
\* the hook's connectivity state is offline, or while the queue is empty
\* submits nothing and changes no record's status (but for the record a
\* retry has just put back to queued).
C18_GuardedInvocationIsNoOp ==
    [][(/\ DrainerInvoked
        /\ \/ isProcessing
           \/ ~isOnline'
           \/ queuedTransactions = <<>>)
       => /\ inflight' = inflight
          /\ \A id \in IdsTried :
                \/ StatusOf(queuedTransactions', id) = StatusOf(queuedTransactions, id)
                \/ RetryFailedTransaction(id)]_vars

\* C19: when the page is closed while a record is marked processing, the
\* queue the restarted hook loads from the durable store holds that record
\* with status processing (so that no drain pass, which submits queued
\* records only, takes it up before a manual retry).
C19_ProcessingSurvivesRestart ==
    [][Reload
       => \A id \in IdsTried :
             StatusOf(queuedTransactions, id) = "processing"
             => StatusOf(GetOfflineTransactions(txStore', user'), id) = "processing"]_vars

\* the attempt of pass p at its current record ends with the record marked
\* failed by that pass
MarkedFailedBy(p) ==
    /\ AttemptFails(p)
    /\ StatusOf(queuedTransactions', PassRecord(p).id) = "failed"

\* C20: whenever a drain pass marks a record failed, after a response that
\* is not ok as well as after a network exception, it shows the toast
\* "Transaction Failed" for that record.
C20_EveryFailureIsNotified ==
    [][\A p \in 1..MaxPasses :
          MarkedFailedBy(p) => passes'[p].toast = "Transaction Failed"]_vars

\* C24: when a pass is done with a record whose submission returned HTTP
\* success (the removal from the durable store has settled, one way or the
\* other), the record is neither in the in-memory queue nor in the durable
\* store, so that no pass, retry or reload can submit it again.
C24_SucceededRecordIsGone ==
    [][\A p \in 1..MaxPasses :
          (passes[p].pc = "remove" /\ passes'[p].pc # "remove" /\ ~PageCloses)
          => /\ PassRecord(p).id \notin Ids(queuedTransactions')
             /\ PassRecord(p).id \notin {r.id : r \in txStore'}]_vars

\* C25: a record that is neither in the in-memory queue nor in the durable
\* store (removeTransaction or clearQueue has removed it) is not submitted,
\* not even by a drain pass that was in progress when it was removed.
C25_RemovedRecordNotSubmitted ==
    [][\A id \in IdsTried :
          (id[2] < now /\ id \notin Ids(queuedTransactions)
                      /\ id \notin {r.id : r \in txStore})
          => ~Submits(id)]_vars

\* C28: a drain pass in progress goes on to the next record of its batch
\* (marks it processing and submits it) only while the connectivity state
\* is online: after connectivity is lost the remaining records are left
\* alone.
C28_NoSubmissionWhileOffline ==
    [][\A p \in 1..MaxPasses :
          (passes[p].pc = "delay" /\ passes'[p].pc = "fetch") => isOnline]_vars

\* C29: while no load and no drain pass is in progress, the in-memory
\* queue and the durable store hold the same record ids for the user.
C29_QueueMirrorsStore ==
    (loads = 0 /\ FreeSlots = 1..MaxPasses)
    => Ids(queuedTransactions) = {r.id : r \in {x \in txStore : x.userId = user}}

(***************************************************************************)
(* Claims about the server (SpecServer)                                    *)
(***************************************************************************)
\* the bank transfers that have debited the wallet and whose processor
\* reference is reference
DebitedBy(reference) ==
    {r \in 1..Len(reqs) :
        /\ reqs[r].kind = "bank"
        /\ reqs[r].pc = "done"
        /\ reqs[r].status = 200
        /\ transactions[reqs[r].tx].squadReference = reference}

\* C3: a webhook callback with status failed whose reference is the
\* processor reference of a bank transfer that has debited the wallet by A
\* increases the owner's balance by exactly A and sets that transaction's
\* status to failed.
C3_FailedWebhookRefundsAndMarksFailed ==
    [][\A r \in 1..Len(reqs) :
          (/\ webhook'.n = webhook.n + 1
           /\ webhook'.status = "failed"
           /\ r \in DebitedBy(webhook'.reference))
          => /\ wallets'[reqs[r].userId] = wallets[reqs[r].userId] + reqs[r].amount
             /\ transactions'[reqs[r].tx].status = "failed"]_vars

\* C7: however the submissions of overlapping drain passes interleave with
\* the transfer handlers, and although a record may be submitted more than
\* once, no wallet balance is ever negative (the initial balances are
\* non-negative and the amounts positive).
C7_WalletBalanceNeverNegative == \A u \in Users : wallets[u] >= 0

\* one queued record has been submitted twice, both handlers overlapped
\* (they read the same balance) and both debited the wallet
C7_Witness ==
    \E r1, r2 \in 1..Len(reqs) :
       /\ r1 < r2
       /\ reqs[r1].origin = reqs[r2].origin
       /\ reqs[r1].kind = "bank" /\ reqs[r2].kind = "bank"
       /\ reqs[r1].status = 200 /\ reqs[r2].status = 200
       /\ reqs[r1].balance = reqs[r2].balance
       /\ reqs[r1].balance < reqs[r1].amount + reqs[r2].amount

\* the references the processor has given to transactions
SquadReferences ==
    {transactions[i].squadReference : i \in 1..Len(transactions)} \ {0}

C22_MalformedAmountRejected ==
    [][\A r \in 1..Len(reqs') :
          (reqs'[r].amount <= 0 /\ (r > Len(reqs) \/ reqs'[r] # reqs[r]))
          => /\ r > Len(reqs)
             /\ reqs'[r].pc = "done"
             /\ reqs'[r].status \in 400..499
             /\ transactions' = transactions
             /\ wallets' = wallets]_vars

\* request r writes its debit in this step
Debits(r) ==
    \/ reqs[r].kind = "bank" /\ reqs[r].pc = "debit" /\ reqs'[r].pc = "done"
    \/ reqs[r].kind = "wallet" /\ reqs[r].pc = "sender" /\ reqs'[r].pc = "credit"

\* C23: a debit writes the balance its handler read at the start less its
\* amount, not the balance the wallet holds when it writes: whatever another
\* mutation has done to the wallet in between is overwritten, so that of two
\* overlapping successful debits the final balance shows only the later one.
C23_DebitOverwritesConcurrentMutation ==
    [][\A r \in 1..Len(reqs) :
          Debits(r)
          => wallets'[reqs[r].userId] = reqs[r].balance - reqs[r].amount]_vars

\* two bank transfers of the same wallet have both been answered 200, and
\* the balance is the one they both read less the amount of one of them
C23_Witness ==
    \E r1, r2 \in 1..Len(reqs) :
       /\ r1 < r2
       /\ reqs[r1].kind = "bank" /\ reqs[r2].kind = "bank"
       /\ reqs[r1].userId = reqs[r2].userId
       /\ reqs[r1].status = 200 /\ reqs[r2].status = 200
       /\ reqs[r1].balance = reqs[r2].balance
       /\ wallets[reqs[r1].userId] \in {reqs[r1].balance - reqs[r1].amount,
                                        reqs[r2].balance - reqs[r2].amount}
       /\ wallets[reqs[r1].userId] > reqs[r1].balance - reqs[r1].amount - reqs[r2].amount

\* the amounts of user u's transactions that carry processor reference ref
AmountsOf(u, ref) ==
    {Unsigned(transactions[i].amount) :
        i \in {k \in 1..Len(transactions) :
                  transactions[k].userId = u /\ transactions[k].squadReference = ref}}

RECURSIVE SumOver(_, _)
SumOver(w, S) ==
    IF S = {} THEN 0
    ELSE LET u == CHOOSE x \in S : TRUE IN w[u] + SumOver(w, S \ {u})

Total(w) == SumOver(w, Users)

\* C27: when a wallet-to-wallet transfer that ran alone completes with 200,
\* the sum of all balances is what it was before the transfer (the
\* balances as they were when the handler read the sender's wallet),
\* whoever the recipient phone resolves to.
C27_WalletTransferConservesTotal ==
    [][\A r \in 1..Len(reqs) :
          (/\ Len(reqs) = 1
           /\ reqs[r].kind = "wallet"
           /\ reqs[r].pc = "credit"
           /\ reqs'[r].pc = "done" /\ reqs'[r].status = 200)
          => Total(wallets') =
                Total([wallets EXCEPT ![reqs[r].userId] = reqs[r].balance])]_vars

(***************************************************************************)
(* Claims about OfflineStorage (SpecStore)                                 *)
(***************************************************************************)
\* list(U) as the page would get it now
ListNow(userId) == GetOfflineTransactions(txStore, userId)

\* C10: after enqueue(record) for user U has succeeded, list(U) contains a
\* record with the id, type, amount and recipientDetails of that record.
C10_EnqueueThenListRoundTrip ==
    (stResult.op = "add" /\ stResult.ok)
    => \E i \in 1..Len(ListNow(stResult.user)) :
          LET got == ListNow(stResult.user)[i]
              put == stResult.list[1]
          IN /\ got.id = put.id
             /\ got.id = stResult.id
             /\ got.type = put.type
             /\ got.amount = put.amount
             /\ got.recipientDetails = put.recipientDetails
             /\ "userId" \notin DOMAIN got

\* a record has just been enqueued next to a record of another user
C10_Witness ==
    /\ stResult.op = "add"
    /\ stResult.ok
    /\ Len(ListNow(stResult.user)) = 1
    /\ \E r \in txStore : r.userId # stResult.user

\* the ids of the records the store holds
StoredIds == {r.id : r \in txStore}

\* the rejections that come from IndexedDB itself (the database does not
\* open, it has no object store for the queue, the request fires onerror)
\* and not from what the store holds
RemoveFaults ==
    {"Failed to open IndexedDB", "NotFoundError", "Failed to remove offline transaction"}

\* C11: remove(id) of an id that is not in the store (never enqueued, or
\* removed already) leaves the store as it is and does not fail because the
\* record is missing: it resolves unless IndexedDB itself fails.
C11_RemoveIsIdempotent ==
    [][(stResult'.op = "remove"
        /\ stResult'.id \notin StoredIds)
       => /\ txStore' = txStore
          /\ stResult'.ok \/ stResult'.error \in RemoveFaults]_vars

\* a remove of an id that was never enqueued has resolved, next to a record
\* that is still there
C11_Witness ==
    /\ stResult.op = "remove"
    /\ stResult.ok
    /\ stResult.id[2] >= now
    /\ txStore # {}

\* the rejections of updateOfflineTransaction that come from IndexedDB
UpdateFaults ==
    {"Failed to open IndexedDB", "NotFoundError", "Failed to find offline transaction",
     "Failed to update offline transaction"}

\* C16: update(id, fields) of an id that is not in the store is rejected
\* (with "Transaction not found" unless IndexedDB itself fails) and leaves
\* the store unchanged; of an id that is in the store, when it resolves, it
\* has changed that record in the given fields and nothing else, and when
\* it is rejected it has changed nothing.
C16_UpdateChangesOnlyGivenFields ==
    [][(stResult'.op = "update")
       => IF stResult'.id \notin StoredIds
          THEN /\ ~stResult'.ok
               /\ stResult'.error \in UpdateFaults \cup {"Transaction not found"}
               /\ txStore' = txStore
          ELSE LET existing == CHOOSE r \in txStore : r.id = stResult'.id
               IN IF stResult'.ok
                  THEN txStore' = (txStore \ {existing})
                                     \cup {Merged(existing, stResult'.list[1])}
                  ELSE /\ txStore' = txStore
                       /\ stResult'.error \in UpdateFaults]_vars

\* what list(U) is to return: the records enqueued for the user, without
\* the userId the store adds, each once, newest first
IsListOf(list, userId) ==
    /\ {list[i] : i \in 1..Len(list)}
          = {WithoutUserId(r) : r \in {x \in txStore : x.userId = userId}}
    /\ Len(list) = Cardinality({x \in txStore : x.userId = userId})
    /\ \A i \in 1..(Len(list) - 1) : list[i].timestamp >= list[i + 1].timestamp

\* C17: list(U) never throws: it resolves, to the records enqueued for U
\* newest first.  (When the database cannot be opened the store holds
\* nothing the page can read; the list is then to be empty.)
C17_ListNeverThrows ==
    (stResult.op = "list")
    => /\ stResult.ok
       /\ IF isInitialized THEN IsListOf(stResult.list, stResult.user)
          ELSE stResult.list = <<>>

\* C30: once FinXchangeOfflineDB has been opened, by the page or by the
\* worker, it holds the page's offlineTransactions store and the worker's
\* offlineQueue store, and no call of the page's OfflineStorage fails for
\* want of its object store.
C30_BothStoresExistAfterOpen ==
    [][/\ (dbStores' # {}) => {TRANSACTION_STORE, WORKER_STORE} \subseteq dbStores'
       /\ stResult'.error # "NotFoundError"]_vars

(***************************************************************************)
(* Claims about the service worker (SpecSW)                                *)
(***************************************************************************)
\* the step is the worker answering one request
Handled == swSeq' = swSeq + 1

\* C1: a non-GET request to a path under /api/transfer/ whose fetch fails is
\* persisted in the worker's queue (endpoint, method, body, timestamp) and
\* answered with HTTP 202 {success:true, offline:true}.
C1_TransferWriteQueuedOffline ==
    (swResp.kind = "write" /\ StartsWith(swResp.path, P_TRANSFER)
        /\ swResp.fetch = "throw")
    => /\ swResp.status = 202
       /\ swResp.offline
       /\ \E r \in offlineQueue :
              r.endpoint = swResp.path /\ r.method = swResp.method

C8_FreshEntryServedWithoutNetwork ==
    [][ \A p \in GetPaths :
          (Handled /\ swResp'.kind = "get" /\ swResp'.path = p
              /\ (\E endpoint \in CACHEABLE_API_ENDPOINTS : StartsWith(p, endpoint))
              /\ p \in DOMAIN apiCache
              /\ now - ParseInt(apiCache[p].cacheDate) < 5 * 60 * 1000)
          => /\ swResp'.src = "cache"
             /\ swResp'.fetch = "none"
             /\ swResp'.body = apiCache[p].body
             /\ swResp'.cacheDate = apiCache[p].cacheDate
             /\ apiCache' = apiCache ]_vars

\* an entry cached four minutes ago has just been served from the cache
C8_Witness ==
    /\ swResp.kind = "get"
    /\ swResp.src = "cache"
    /\ swResp.fetch = "none"
    /\ swResp.path \in DOMAIN apiCache
    /\ swResp.cacheDate = apiCache[swResp.path].cacheDate
    /\ now - ParseInt(swResp.cacheDate) = 4 * 60 * 1000

\* C9: a GET to a cacheable endpoint whose fetch fails is answered with the
\* cached copy, whatever its age, when there is one, and with HTTP 503 and
\* the structured offline error when there is none.
C9_NetworkFailureFallsBackToCache ==
    [][ \A p \in GetPaths :
          (Handled /\ swResp'.kind = "get" /\ swResp'.path = p
              /\ (\E endpoint \in CACHEABLE_API_ENDPOINTS : StartsWith(p, endpoint))
              /\ swResp'.fetch = "throw")
          => IF p \in DOMAIN apiCache
             THEN /\ swResp'.src = "cache"
                  /\ swResp'.body = apiCache[p].body
                  /\ swResp'.cacheDate = apiCache[p].cacheDate
                  /\ swResp'.status = apiCache[p].status
             ELSE /\ swResp'.src = "synthetic"
                  /\ swResp'.status = 503
                  /\ swResp'.error = "Offline" ]_vars

\* a copy older than five minutes has been served after the fetch failed
C9_Witness ==
    /\ swResp.kind = "get"
    /\ swResp.src = "cache"
    /\ swResp.fetch = "throw"
    /\ now - ParseInt(swResp.cacheDate) >= 5 * 60 * 1000

\* the worker answers a GET for cacheable path p whose cached entry is five
\* minutes old or older
StaleGet(p) ==
    /\ Handled
    /\ swResp'.kind = "get"
    /\ swResp'.path = p
    /\ \E endpoint \in CACHEABLE_API_ENDPOINTS : StartsWith(p, endpoint)
    /\ p \in DOMAIN apiCache
    /\ now - ParseInt(apiCache[p].cacheDate) >= 5 * 60 * 1000

\* the entry the worker is to leave for p after a fetch at the current time
Superseded(p) ==
    /\ apiCache'[p].body = swResp'.body
    /\ apiCache'[p].status = swResp'.status
    /\ ParseInt(apiCache'[p].cacheDate) = now

\* C21 as stated: a GET to a cacheable endpoint whose cached entry is five
\* minutes old or older is answered from the network whenever the network
\* is reachable (the fetch does not reject), and the cached entry is
\* replaced by the fetched response tagged with the current time.
C21_StaleEntrySupersededWhenReachable ==
    [][ \A p \in GetPaths :
          (StaleGet(p) /\ swResp'.fetch # "throw")
          => /\ swResp'.src = "network"
             /\ Superseded(p) ]_vars

\* C21, amended: such a GET always goes to the network and the stale entry
\* is never served as fresh; the entry is replaced by the fetched response
\* tagged with the current time when that response is ok, and is left as it
\* is (still stale) when the network answers with a response that is not ok.
C21_StaleEntrySupersededByOkResponse ==
    [][ \A p \in GetPaths :
          StaleGet(p)
          => /\ swResp'.fetch # "none"
             /\ (swResp'.fetch = "ok")
                  => /\ swResp'.src = "network"
                     /\ Superseded(p)
                     /\ \A q \in DOMAIN apiCache \ {p} : apiCache'[q] = apiCache[q]
             /\ (swResp'.fetch = "httperr")
                  => /\ swResp'.src = "network"
                     /\ apiCache' = apiCache ]_vars

\* a response fetched five minutes or more after the start has been cached
\* under the current time, as the second answer of the worker
C21_Witness ==
    /\ swSeq = 2
    /\ swResp.kind = "get"
    /\ swResp.fetch = "ok"
    /\ swResp.src = "network"
    /\ swResp.path \in DOMAIN apiCache
    /\ ParseInt(apiCache[swResp.path].cacheDate) = now
    /\ now >= 5 * 60 * 1000
    /\ DOMAIN apiCache = {swResp.path}

====
